---- MODULE Spec2Model ----
(***************************************************************************)
(* PieChart (src/src/components/layouts/PieChart.js): a React component    *)
(* that, on every change of its selectedYear prop, clears an SVG surface,  *)
(* fetches a CSV of regional arms imports and, when the fetch resolves,    *)
(* draws a pie chart, a legend and a total; slices carry hover handlers    *)
(* that drive a tooltip.                                                   *)
(*                                                                         *)
(* Numbers.  Every cell of the CSV is divided by 1000 (line 32).  The      *)
(* model keeps an amount n/1000 as the integer n (fixed point, three       *)
(* decimals), so the arithmetic is exact; percentages are kept as the      *)
(* integer number of units of the last printed decimal ("62.50" is 6250).  *)
(***************************************************************************)
EXTENDS Integers, Sequences, FiniteSets, TLC

VARIABLES
    selectedYear,    \* the selectedYear prop of the last render
    csv,             \* the rows the remote CSV resource parses to
    cycle,           \* promise of the fetch of the current render cycle
    stale,           \* year -> number of unsettled fetches of earlier cycles
    errors,          \* number of console.error lines written
    surface,         \* contents of the svg element
    tooltip,         \* useState: tooltip
    legendData,      \* useState: legendData
    totalArmsTrade   \* useState: totalArmsTrade

vars == <<selectedYear, csv, cycle, stale, errors, surface, tooltip,
          legendData, totalArmsTrade>>

----------------------------------------------------------------------------
(* Bounds of the model *)

MaxStale == 2          \* unsettled fetches of earlier cycles
MaxErrors == 1         \* console.error lines
MaxCoord == 1          \* event.pageX / event.pageY range over 0..MaxCoord
MaxRows == 3           \* rows of an enumerated CSV
MaxSmallRegions == 22  \* small regions of a many-region CSV

----------------------------------------------------------------------------
(* Program constants *)

FirstYear == 1950
LastYear == 2023
PaletteSize == 10
TooltipOffset == 10
RestingOpacity == 85     \* opacity 0.85, in hundredths
HoverOpacity == 100      \* opacity 1, in hundredths

\* The year columns the model carries: the two ends of the loop of line 31.
Years == {FirstYear, LastYear}

----------------------------------------------------------------------------
(* CSV cells and rows *)

Num(n) == [kind |-> "num", val |-> n]
Text == [kind |-> "text", val |-> 0]        \* a non-numeric string
Missing == [kind |-> "missing", val |-> 0]  \* the column is absent: undefined

\* Unary plus of line 32: a number, or NaN.
ToNumber(cell) ==
    IF cell.kind = "num" THEN [nan |-> FALSE, val |-> cell.val]
    ELSE [nan |-> TRUE, val |-> 0]

\* +d[year] / 1000 || 0 : NaN and 0 are falsy and give 0; any other number,
\* negative ones included, is kept (in thousandths).
NormaliseCell(cell) ==
    LET n == ToNumber(cell)
    IN  IF n.nan \/ n.val = 0 THEN 0 ELSE n.val

\* data.forEach(d => { for (year ...) d[year] = ... })
NormaliseRows(data) ==
    [i \in DOMAIN data |->
        [region |-> data[i].region,
         cells  |-> [y \in Years |-> NormaliseCell(data[i].cells[y])]]]

\* A filter that forgets the second aggregate label.
KeepRowWorldOnly(d) == d.region # "World total"

KeepRow(d) == d.region # "World total" /\ d.region # "International organizations"

\* data.filter(...)
FilteredData(data) == SelectSeq(data, KeepRow)

\* d3.group(rows, d => d['Imports by Regions']): a Map from region to the
\* rows of that region, keys in order of first insertion.
RECURSIVE GroupInto(_, _)
GroupInto(groups, rows) ==
    IF rows = <<>> THEN groups
    ELSE LET d == Head(rows)
             hit == {i \in DOMAIN groups : groups[i].key = d.region}
         IN  IF hit = {}
             THEN GroupInto(Append(groups, [key |-> d.region, values |-> <<d>>]),
                            Tail(rows))
             ELSE GroupInto([i \in DOMAIN groups |->
                                IF i \in hit
                                THEN [groups[i] EXCEPT !.values = Append(@, d)]
                                ELSE groups[i]],
                            Tail(rows))

Group(rows) == GroupInto(<<>>, rows)

\* Reading the last row of a group instead of the first.
PickLastRow(values) == values[Len(values)]

\* The row of a group whose value is read: values[0].
PickRow(values) == values[1]

\* Array.from(d3.group(...), ([region, values]) => ({region, armsTrade})).
\* The cells are numbers by now, so values[0][selectedYear] || 0 is the cell.
RegionArmsData(data, year) ==
    LET groups == Group(FilteredData(NormaliseRows(data)))
    IN  [i \in DOMAIN groups |->
            [region    |-> groups[i].key,
             armsTrade |-> PickRow(groups[i].values).cells[year]]]

\* d3.sum(regionArmsData, d => d.armsTrade)
RECURSIVE SumArmsTrade(_)
SumArmsTrade(rd) ==
    IF rd = <<>> THEN 0 ELSE Head(rd).armsTrade + SumArmsTrade(Tail(rd))

Abs(n) == IF n < 0 THEN -n ELSE n

\* Formatting that cuts the further digits off instead of rounding.
ToFixedTruncated(value, total, digits) ==
    LET scale == IF digits = 2 THEN 10000 ELSE 1000
        n == (Abs(value) * scale) \div Abs(total)
    IN  IF (value < 0) # (total < 0) THEN -n ELSE n

\* ((value / total) * 100).toFixed(digits), as the signed integer count of
\* units of the last digit: the nearest one, ties away from zero.
ToFixedPercent(value, total, digits) ==
    LET scale == IF digits = 2 THEN 10000 ELSE 1000
        a == Abs(value) * scale
        b == Abs(total)
        q == a \div b
        r == a % b
        n == IF 2 * r >= b THEN q + 1 ELSE q
    IN  IF (value < 0) # (total < 0) THEN -n ELSE n

\* d3.scaleOrdinal(d3.schemeCategory10), created anew in each callback and
\* asked for the regions in order: the i-th distinct region gets the i-th
\* colour of the palette, cyclically.
ColorScale(i) == (i - 1) % PaletteSize

LegendInfo(rd, total) ==
    [i \in DOMAIN rd |->
        [region     |-> rd[i].region,
         color      |-> ColorScale(i),
         percentage |-> ToFixedPercent(rd[i].armsTrade, total, 2),
         armsTrade  |-> rd[i].armsTrade]]

----------------------------------------------------------------------------
(* The drawing surface *)

\* A slice path: its datum, and which arc and opacity it is (being) drawn
\* with.  A d3 transition is identified with the attributes it ends at.
RestingSlice(d) ==
    [region |-> d.region, armsTrade |-> d.armsTrade,
     d |-> "arc", opacity |-> RestingOpacity]

Hovered(s) == s.d = "arcHover"

\* svg.append('text').text('No data available for this year')
Placeholder == [kind |-> "placeholder", total |-> 0, paths |-> <<>>, labels |-> <<>>]

\* The two groups appended by lines 74-126: one path per datum of
\* pie(regionArmsData), one percentage label (1 decimal) per datum.  total is
\* the totalArmsTrade the handlers of these paths have closed over.
Chart(rd, total) ==
    [kind   |-> "chart",
     total  |-> total,
     paths  |-> [i \in DOMAIN rd |-> RestingSlice(rd[i])],
     labels |-> [i \in DOMAIN rd |-> ToFixedPercent(rd[i].armsTrade, total, 1)]]

\* svg.selectAll('*').remove(), then the title text
ClearedSurface(year) == [title |-> year, children |-> <<>>]

HiddenTooltip == [visible |-> FALSE, x |-> 0, y |-> 0,
                  content |-> [region |-> "", armsTrade |-> 0, percentage |-> 0]]

Charts == {i \in DOMAIN surface.children : surface.children[i].kind = "chart"}

\* <<i, j>>: the j-th path of the i-th child of the svg
SlicesOnSurface ==
    UNION {{<<i, j>> : j \in DOMAIN surface.children[i].paths} : i \in Charts}

SliceAt(s) == surface.children[s[1]].paths[s[2]]

HoveredSlices == {s \in SlicesOnSurface : Hovered(SliceAt(s))}

\* The chart drawn last lies over the earlier ones; d3.pie gives a datum
\* whose value is not positive an arc of angle 0, which the pointer cannot
\* be over.
Hoverable ==
    {s \in SlicesOnSurface :
        /\ \A i \in Charts : i <= s[1]
        /\ SliceAt(s).armsTrade > 0}

Positions == (0..MaxCoord) \X (0..MaxCoord)

StaleCount == stale[FirstYear] + stale[LastYear]

----------------------------------------------------------------------------
(* The effect and its callbacks *)

\* useEffect body, lines 12-29 and 130: runs when selectedYear has changed.
\* The fetch of the previous cycle, if unsettled, is left to run.  The paths
\* are removed without their mouseleave handler being called, and the
\* tooltip state is not touched.
SelectYear(y) ==
    /\ y # selectedYear
    /\ StaleCount + (IF cycle = "pending" THEN 1 ELSE 0) <= MaxStale
    /\ selectedYear' = y
    /\ surface' = ClearedSurface(y)
    /\ stale' = IF cycle = "pending"
                THEN [stale EXCEPT ![selectedYear] = @ + 1]
                ELSE stale
    /\ cycle' = "pending"
    /\ UNCHANGED <<csv, errors, tooltip, legendData, totalArmsTrade>>

\* The .then callback of lines 29-126, for the fetch started with `year`.
Then(year) ==
    LET rd == RegionArmsData(csv, year)
        total == SumArmsTrade(rd)
    IN  /\ totalArmsTrade' = total
        /\ IF total = 0
           THEN /\ surface' = [surface EXCEPT !.children = Append(@, Placeholder)]
                /\ UNCHANGED legendData
           ELSE /\ legendData' = LegendInfo(rd, total)
                /\ surface' = [surface EXCEPT !.children = Append(@, Chart(rd, total))]

\* A catch handler that also shows the placeholder.
CatchWithPlaceholder ==
    /\ errors < MaxErrors
    /\ errors' = errors + 1
    /\ surface' = [surface EXCEPT !.children = Append(@, Placeholder)]
    /\ UNCHANGED <<legendData, totalArmsTrade>>

\* The .catch callback of lines 127-129.
Catch ==
    /\ errors < MaxErrors
    /\ errors' = errors + 1
    /\ UNCHANGED <<surface, legendData, totalArmsTrade>>

\* The fetch of the current cycle resolves.
FetchDone ==
    /\ cycle = "pending"
    /\ cycle' = "done"
    /\ Then(selectedYear)
    /\ UNCHANGED <<selectedYear, csv, stale, errors, tooltip>>

\* The fetch of the current cycle rejects.
FetchFail ==
    /\ cycle = "pending"
    /\ cycle' = "failed"
    /\ Catch
    /\ UNCHANGED <<selectedYear, csv, stale, tooltip>>

\* A fetch of an earlier cycle whose callback has been cancelled.
CancelledThen(year) ==
    /\ stale[year] > 0
    /\ stale' = [stale EXCEPT ![year] = @ - 1]
    /\ UNCHANGED <<selectedYear, csv, cycle, errors, tooltip, surface,
                   legendData, totalArmsTrade>>

\* A fetch of an earlier cycle resolves: its callback runs all the same.
StaleThen(year) ==
    /\ stale[year] > 0
    /\ stale' = [stale EXCEPT ![year] = @ - 1]
    /\ Then(year)
    /\ UNCHANGED <<selectedYear, csv, cycle, errors, tooltip>>

StaleFetchDone == \E year \in Years : StaleThen(year)

\* A fetch of an earlier cycle rejects.
StaleFetchFail ==
    \E year \in Years :
        /\ stale[year] > 0
        /\ stale' = [stale EXCEPT ![year] = @ - 1]
        /\ Catch
        /\ UNCHANGED <<selectedYear, csv, cycle, tooltip>>

----------------------------------------------------------------------------
(* Pointer handlers of a slice *)

SetSlice(s, d, opacity) ==
    surface' = [surface EXCEPT !.children[s[1]].paths[s[2]] =
                    [@ EXCEPT !.d = d, !.opacity = opacity]]

\* .on('mouseenter', ...), lines 84-98
OnMouseEnter(s, pos) ==
    LET g == surface.children[s[1]]
        d == g.paths[s[2]]
    IN  /\ tooltip' = [visible |-> TRUE, x |-> pos[1], y |-> pos[2],
                       content |-> [region |-> d.region,
                                    armsTrade |-> d.armsTrade,
                                    percentage |->
                                        ToFixedPercent(d.armsTrade, g.total, 2)]]
        /\ SetSlice(s, "arcHover", HoverOpacity)

\* .on('mousemove', ...), lines 99-105
OnMouseMove(pos) ==
    tooltip' = [tooltip EXCEPT !.x = pos[1] + TooltipOffset,
                               !.y = pos[2] + TooltipOffset]

\* A leave handler that restores the slice and forgets the tooltip.
OnMouseLeaveSliceOnly(s) ==
    /\ UNCHANGED tooltip
    /\ SetSlice(s, "arc", RestingOpacity)

\* .on('mouseleave', ...), lines 106-114
OnMouseLeave(s) ==
    /\ tooltip' = HiddenTooltip
    /\ SetSlice(s, "arc", RestingOpacity)

\* The browser dispatches mouseenter to a slice the pointer comes onto, having
\* dispatched mouseleave to the slice it was on, if that is still there.
MouseEnter ==
    \E s \in Hoverable, pos \in Positions :
        /\ HoveredSlices = {}
        /\ OnMouseEnter(s, pos)
        /\ UNCHANGED <<selectedYear, csv, cycle, stale, errors, legendData,
                       totalArmsTrade>>

MouseMove ==
    \E s \in HoveredSlices, pos \in Positions :
        /\ OnMouseMove(pos)
        /\ UNCHANGED <<selectedYear, csv, cycle, stale, errors, surface,
                       legendData, totalArmsTrade>>

MouseLeave ==
    \E s \in HoveredSlices :
        /\ OnMouseLeave(s)
        /\ UNCHANGED <<selectedYear, csv, cycle, stale, errors, legendData,
                       totalArmsTrade>>

YearChange == \E y \in Years : SelectYear(y)

----------------------------------------------------------------------------
(* CSV contents *)

Cells(a, b) == [y \in Years |-> IF y = FirstYear THEN a ELSE b]

Row(region, a, b) == [region |-> region, cells |-> Cells(a, b)]

\* The CSVs of the full specification.
SampleCsvs ==
    { <<Row("Europe", Num(5000), Num(0)), Row("Asia", Num(3000), Missing)>>,
      <<Row("World total", Num(9000), Num(9000)),
        Row("Asia", Num(3000), Text),
        Row("International organizations", Num(100), Num(100)),
        Row("Asia", Num(7000), Num(4000)),
        Row("Europe", Num(1000), Num(1000))>>,
      <<Row("Asia", Num(-2000), Num(2000)), Row("Europe", Num(2000), Num(1000))>> }

Labels == {"Asia", "Europe", "World total", "International organizations"}

Profiles == {Cells(Num(5000), Num(0)), Cells(Num(3000), Num(1000)),
             Cells(Text, Missing), Cells(Num(-2000), Num(2000))}

RowChoices == {[region |-> r, cells |-> c] : r \in Labels, c \in Profiles}

\* Every CSV of at most MaxRows rows over RowChoices.
EnumeratedCsvs == UNION {[1..n -> RowChoices] : n \in 0..MaxRows}

\* n regions with the same small amount, and one with a big amount.
ManyRegions(n, small, big) ==
    [i \in 1..n + 1 |->
        IF i <= n THEN Row("Region " \o ToString(i), Num(small), Num(small))
        ELSE Row("Rest", Num(big), Num(0))]

ManyRegionCsvs ==
    {ManyRegions(n, v[1], v[2]) :
        n \in 1..MaxSmallRegions, v \in {<<1, 777>>, <<1, 1>>}}

----------------------------------------------------------------------------
(* Specifications *)

InitWith(csvs) ==
    /\ selectedYear \in Years
    /\ csv \in csvs
    /\ cycle = "pending"
    /\ stale = [y \in Years |-> 0]
    /\ errors = 0
    /\ surface = ClearedSurface(selectedYear)
    /\ tooltip = HiddenTooltip
    /\ legendData = <<>>
    /\ totalArmsTrade = 0

\* The component after its first render, whose effect has started a fetch.
Init == InitWith(SampleCsvs)

Next ==
    \/ YearChange
    \/ FetchDone
    \/ FetchFail
    \/ StaleFetchDone
    \/ StaleFetchFail
    \/ MouseEnter
    \/ MouseMove
    \/ MouseLeave

Spec == Init /\ [][Next]_vars

\* Sequential runs over many CSVs: every fetch resolves before the next year
\* is selected, and the pointer stays away.
InitSeq == InitWith(EnumeratedCsvs \cup ManyRegionCsvs)

SeqYearChange == cycle # "pending" /\ YearChange

NextSeq ==
    \/ SeqYearChange
    \/ FetchDone

SpecSeq == InitSeq /\ [][NextSeq]_vars

----------------------------------------------------------------------------
(* Properties *)

ExcludedRegions == {"World total", "International organizations"}

YearData(y) == RegionArmsData(csv, y)

YearTotal(y) == SumArmsTrade(YearData(y))

YearLegend(y) == LegendInfo(YearData(y), YearTotal(y))

Unsettled == StaleCount + (IF cycle = "pending" THEN 1 ELSE 0)

RECURSIVE SumPercentages(_)
SumPercentages(legend) ==
    IF legend = <<>> THEN 0
    ELSE Head(legend).percentage + SumPercentages(Tail(legend))

\* The first row of the CSV that carries the region.
FirstRowOf(region) ==
    CHOOSE k \in DOMAIN csv :
        /\ csv[k].region = region
        /\ \A m \in 1..k - 1 : csv[m].region # region

KeptRegions == {csv[k].region : k \in DOMAIN csv} \ ExcludedRegions

\* C1: once the fetch for the selected year has resolved and that year's
\* values sum to 0, the surface holds the placeholder text and no slice path,
\* whatever was selected before and in whatever order earlier fetches settle.
C1_ZeroTotalShowsOnlyPlaceholder ==
    (cycle = "done" /\ YearTotal(selectedYear) = 0) =>
        /\ \E i \in DOMAIN surface.children :
               surface.children[i].kind = "placeholder"
        /\ SlicesOnSurface = {}

\* C2: a fetch of an earlier cycle that resolves runs its callback whatever
\* year is selected by then: it sets the total to that of its own year and,
\* when that total is not 0, replaces the legend by that of its own year and
\* appends its slices to the surface; the selected year and the current
\* cycle stay as they are.
C2_StaleFetchOverwrites ==
    [][\A a \in Years :
          (stale'[a] < stale[a] /\ errors' = errors) =>
              /\ totalArmsTrade' = YearTotal(a)
              /\ selectedYear' = selectedYear
              /\ cycle' = cycle
              /\ YearTotal(a) # 0 =>
                    /\ legendData' = YearLegend(a)
                    /\ surface'.children =
                          Append(surface.children, Chart(YearData(a), YearTotal(a)))
      ]_vars

\* C2, the state it speaks of: year B is selected, its fetch has resolved and
\* none is unsettled, and legend and total are those of another year A.
C2_StaleYearDisplayed ==
    \E a \in Years :
        /\ a # selectedYear
        /\ cycle = "done" /\ Unsettled = 0 /\ errors = 0
        /\ YearTotal(a) # 0 /\ YearTotal(selectedYear) # 0
        /\ YearTotal(a) # YearTotal(selectedYear)
        /\ YearLegend(a) # YearLegend(selectedYear)
        /\ totalArmsTrade = YearTotal(a)
        /\ legendData = YearLegend(a)

\* C3: a fetch that fails is logged and nothing else: the surface, the
\* legend, the total and the tooltip stay as they are and no fetch is started;
\* the next year selection after a failed cycle clears the surface and starts
\* a fetch as usual.
C3_FailedFetchAbandonsCycle ==
    [][/\ errors' # errors =>
            /\ surface' = surface
            /\ legendData' = legendData
            /\ totalArmsTrade' = totalArmsTrade
            /\ tooltip' = tooltip
            /\ selectedYear' = selectedYear
            /\ Unsettled' = Unsettled - 1
       /\ (cycle = "failed" /\ selectedYear' # selectedYear) =>
            /\ cycle' = "pending"
            /\ surface' = ClearedSurface(selectedYear')
            /\ Unsettled' = Unsettled + 1
      ]_vars

\* C3, its case: the fetch of the current cycle has failed, nothing has been
\* drawn in the cycle and the legend of an earlier cycle is still there.
C3_AfterFailedFetch ==
    /\ cycle = "failed" /\ errors > 0 /\ Unsettled = 0
    /\ surface.children = <<>>
    /\ legendData # <<>>

\* C4: a slice is drawn resting (arc, opacity 0.85) or hovered (enlarged arc,
\* opacity 1).  A step that takes a slice from resting to hovered leaves the
\* tooltip visible, with the region of the slice and its share of the total
\* of its chart rounded to two decimals; a step that takes a slice from
\* hovered to resting leaves the tooltip hidden, with no content and no
\* position.  The datum of a slice never changes.
C4_HoverDrivesTooltip ==
    /\ [](\A s \in SlicesOnSurface :
             <<SliceAt(s).d, SliceAt(s).opacity>> \in
                 {<<"arc", RestingOpacity>>, <<"arcHover", HoverOpacity>>})
    /\ [][\A s \in SlicesOnSurface \cap SlicesOnSurface' :
             LET before == SliceAt(s)
                 after == SliceAt(s)'
                 total == surface.children[s[1]].total
             IN  /\ after.region = before.region
                 /\ after.armsTrade = before.armsTrade
                 /\ (~Hovered(before) /\ Hovered(after)) =>
                       /\ tooltip'.visible
                       /\ tooltip'.content.region = before.region
                       /\ 2 * Abs(tooltip'.content.percentage * total
                                  - 10000 * before.armsTrade) <= Abs(total)
                 /\ (Hovered(before) /\ ~Hovered(after)) =>
                       tooltip' = HiddenTooltip
         ]_vars

\* C4, its case: Europe's slice of the 5000 / 3000 chart is hovered and the
\* tooltip shows Europe, 62.50 %.
C4_EuropeHovered ==
    \E s \in HoveredSlices :
        /\ SliceAt(s).region = "Europe"
        /\ tooltip.visible
        /\ tooltip.content.region = "Europe"
        /\ tooltip.content.percentage = 6250

OneDatumPerRegion(rd, y) ==
    /\ {rd[i].region : i \in DOMAIN rd} = KeptRegions
    /\ Len(rd) = Cardinality(KeptRegions)
    /\ \A i \in DOMAIN rd :
           rd[i].armsTrade = NormaliseCell(csv[FirstRowOf(rd[i].region)].cells[y])
    /\ \A i, j \in DOMAIN rd :
           i < j => FirstRowOf(rd[i].region) < FirstRowOf(rd[j].region)

\* C6: for every year the transformer yields exactly one datum per distinct
\* region label among the rows not excluded, in order of first appearance,
\* with the value of the first row of that label; the slices of a drawn chart
\* are these data.
C6_OneDatumPerRegionFirstWins ==
    /\ \A y \in Years : OneDatumPerRegion(YearData(y), y)
    /\ \A i \in Charts : OneDatumPerRegion(surface.children[i].paths, selectedYear)

\* C6, its case: a region with two rows, not adjacent, whose values for the
\* selected year differ, drawn as one slice with the first row's value.
C6_DuplicateRegionDrawnOnce ==
    /\ cycle = "done"
    /\ \E k, m \in DOMAIN csv :
          /\ k + 1 < m
          /\ csv[k].region = csv[m].region
          /\ csv[k].region \notin ExcludedRegions
          /\ FirstRowOf(csv[k].region) = k
          /\ NormaliseCell(csv[k].cells[selectedYear])
                 # NormaliseCell(csv[m].cells[selectedYear])
          /\ \E s \in SlicesOnSurface :
                /\ SliceAt(s).region = csv[k].region
                /\ SliceAt(s).armsTrade = NormaliseCell(csv[k].cells[selectedYear])

\* C7: every datum the transformer yields, hence every slice, every legend
\* entry and the total, is >= 0, whatever the cells of the CSV are.
C7_ValuesNonNegative ==
    /\ \A s \in SlicesOnSurface : SliceAt(s).armsTrade >= 0
    /\ \A i \in DOMAIN legendData : legendData[i].armsTrade >= 0
    /\ totalArmsTrade >= 0

\* C8: no legend entry, no slice and no tooltip content is of the region
\* "World total" or "International organizations".
C8_NoAggregateRegionShown ==
    /\ \A i \in DOMAIN legendData : legendData[i].region \notin ExcludedRegions
    /\ \A s \in SlicesOnSurface : SliceAt(s).region \notin ExcludedRegions
    /\ tooltip.content.region \notin ExcludedRegions

\* C8, its case: the CSV has rows of both aggregate labels, a chart of it is
\* drawn with its legend, and the tooltip of a slice is shown.
C8_AggregatesInCsvChartShown ==
    /\ ExcludedRegions \subseteq {csv[k].region : k \in DOMAIN csv}
    /\ legendData # <<>>
    /\ HoveredSlices # {}
    /\ tooltip.visible

\* C9: in a sequential run, once the fetch for the selected year has
\* resolved, the total is that of the year and the legend entries are exactly
\* those of the year: none when the total is 0.
C9_LegendIsOfSelectedYear ==
    cycle = "done" =>
        /\ totalArmsTrade = YearTotal(selectedYear)
        /\ legendData = IF YearTotal(selectedYear) = 0 THEN <<>>
                        ELSE YearLegend(selectedYear)

\* C10: the tooltip is visible only while a hovered slice is on the surface.
C10_TooltipOnlyWhileHovering ==
    tooltip.visible => HoveredSlices # {}

====
